---- MODULE Spec2Model ----
(***************************************************************************)
(* A model of src/src/translation-assistant.js.                            *)
(*                                                                         *)
(* A JavaScript string is a sequence of lexemes.  A lexeme is a short run  *)
(* of characters that none of the regexes of the file can split: "$", a    *)
(* blank, the paragraph break "\n\n" (NL), "\text{" (TXO), "}", "\sin",    *)
(* a whole graphie "![](..)" (G1, G2), a whole widget "[[☃ ..]]" (W1, W2), *)
(* a digit, a word.  The regexes are matched over lexemes the way the      *)
(* engine matches them over characters: leftmost match first, scanning     *)
(* resumes after the end of a match.  Not in the alphabet: the escaped     *)
(* dollar "\$", a single "\n", regex metacharacters inside \text{}.        *)
(***************************************************************************)
EXTENDS Integers, Sequences, FiniteSets, TLC

VARIABLES
    pc,                \* where the caller of the module is
    allItems,          \* the corpus handed to the constructor
    langArg,              \* the lang argument of the constructor or of a direct call
    this_lang,          \* this.lang
    this_suggestionGroups,  \* this.suggestionGroups
    builderLangs,      \* history: the lang values createTemplate was called with
    suggestArg,  \* the argument of the last suggest call
    suggestions,       \* what the last suggest call returned
    populatorLangs,    \* history: the lang values suggest handed on
    argEnglishStr,        \* the arguments and results of direct calls of the
    argTranslatedStr,     \* exported functions
    dictResult,
    mappingResult,
    mapperInputs,
    templateResult,
    populated,
    populatorMaths,
    groupKey

vars ==
    <<pc, allItems, langArg, this_lang, this_suggestionGroups, builderLangs,
      suggestArg, suggestions, populatorLangs, argEnglishStr, argTranslatedStr,
      dictResult, mappingResult, mapperInputs, templateResult, populated,
      populatorMaths, groupKey>>

engineVars ==
    <<allItems, this_lang, this_suggestionGroups, builderLangs, suggestArg,
      suggestions, populatorLangs>>

callVars ==
    <<argEnglishStr, argTranslatedStr, dictResult, mappingResult, mapperInputs,
      templateResult, populated, populatorMaths, groupKey>>

NL == "NL"
TXO == "\\text{"
CLOSE == "}"
SIN == "\\sin"
SENOPEN == "\\operatorname{sen"
QUOTE == "\""
COMMA == ","
UNDEFINED == "undefined"

Graphies == {"G1", "G2"}
Widgets == {"W1", "W2"}
Digits == {"2", "3"}

\* src line 10
MATH_REGEX == "MATH_REGEX"
\* src line 14
GRAPHIE_REGEX == "GRAPHIE_REGEX"
\* src line 17
WIDGET_REGEX == "WIDGET_REGEX"
\* src line 19
TEXT_REGEX == "TEXT_REGEX"
\* src line 74: /__MATH__[\t ]*__WIDGET__/g
MATH_WS_WIDGET_REGEX == "MATH_WS_WIDGET_REGEX"
\* src line 23
LINE_BREAK == <<NL>>

Min(S) == CHOOSE x \in S : \A y \in S : x <= y

\* The first index >= i of s holding c, 0 when there is none.
IndexFrom(s, i, c) ==
    LET J == {j \in i..Len(s) : s[j] = c}
    IN  IF J = {} THEN 0 ELSE Min(J)

\* The first index >= i of s not holding a blank, 0 when there is none.
SkipBlanks(s, i) ==
    LET J == {j \in i..Len(s) : s[j] # " "}
    IN  IF J = {} THEN 0 ELSE Min(J)

\* Where the match of regex that starts at s[i] ends, 0 when none starts there.
MatchEnd(regex, s, i) ==
    CASE regex = MATH_REGEX ->
           \* \$(\\\$|[^\$])+\$ : a "$", one or more non-"$", a "$"
           IF s[i] # "$" THEN 0
           ELSE LET j == IndexFrom(s, i + 1, "$")
                IN  IF j >= i + 2 THEN j ELSE 0
      [] regex = GRAPHIE_REGEX -> IF s[i] \in Graphies THEN i ELSE 0
      [] regex = WIDGET_REGEX -> IF s[i] \in Widgets THEN i ELSE 0
      [] regex = TEXT_REGEX ->
           \* \\text{([^}]*)} : "\text{", any run of non-"}", a "}"
           IF s[i] # TXO THEN 0 ELSE IndexFrom(s, i + 1, CLOSE)
      [] regex = MATH_WS_WIDGET_REGEX ->
           IF s[i] # "__MATH__" THEN 0
           ELSE LET j == SkipBlanks(s, i + 1)
                IN  IF j # 0 /\ s[j] = "__WIDGET__" THEN j ELSE 0
      [] OTHER -> IF s[i] = regex THEN i ELSE 0

\* The matches of a /g regex in s from index i on, as <<first, last>> pairs.
RECURSIVE Matches(_, _, _)
Matches(regex, s, i) ==
    IF i > Len(s) THEN <<>>
    ELSE LET e == MatchEnd(regex, s, i)
         IN  IF e = 0 THEN Matches(regex, s, i + 1)
             ELSE <<<<i, e>>>> \o Matches(regex, s, e + 1)

\* str.match(regex) || []
matched(s, M) == [k \in 1..Len(M) |-> SubSeq(s, M[k][1], M[k][2])]

match(s, regex) == matched(s, Matches(regex, s, 1))

\* str.replace(regex, repl) for a /g regex and a constant replacement
RECURSIVE replaceFrom(_, _, _, _)
replaceFrom(s, regex, repl, i) ==
    IF i > Len(s) THEN <<>>
    ELSE LET e == MatchEnd(regex, s, i)
         IN  IF e = 0 THEN <<s[i]>> \o replaceFrom(s, regex, repl, i + 1)
             ELSE repl \o replaceFrom(s, regex, repl, e + 1)

replace(s, regex, repl) == replaceFrom(s, regex, repl, 1)

\* str.split(LINE_BREAK)
RECURSIVE split(_)
split(s) ==
    LET j == IndexFrom(s, 1, NL)
    IN  IF j = 0 THEN <<s>>
        ELSE <<SubSeq(s, 1, j - 1)>> \o split(SubSeq(s, j + 1, Len(s)))

\* lines.join(LINE_BREAK)
RECURSIVE join(_, _)
join(lines, sep) ==
    IF Len(lines) = 0 THEN <<>>
    ELSE IF Len(lines) = 1 THEN lines[1]
    ELSE lines[1] \o sep \o join(Tail(lines), sep)

\* line.trim()
trim(line) ==
    LET J == {j \in 1..Len(line) : line[j] # " "}
    IN  IF J = {} THEN <<>>
        ELSE SubSeq(line, Min(J), CHOOSE x \in J : \A y \in J : y <= x)

\* allMatches(text, /\\text{([^}]*)}/g, matches => result.push(matches[1]))
captured(text, M) == [k \in 1..Len(M) |-> SubSeq(text, M[k][1] + 1, M[k][2] - 1)]

textsOf(text) == captured(text, Matches(TEXT_REGEX, text, 1))

\* The order of the first UTF-16 code units of the lexemes (Array.prototype.sort
\* with no comparator compares strings by code units).
CharOrder ==
    <<NL, " ", "G1", "G2", QUOTE, "$", COMMA, "2", "3", "?", "Is", "Simplify",
      "W1", "W2", SENOPEN, SIN, TXO, "__GRAPHIE__", "__MATH__", "__TEXT__",
      "__WIDGET__", "b", "r", UNDEFINED, "w", "x", "y", "z", CLOSE>>

Rank(c) == CHOOSE i \in 1..Len(CharOrder) : CharOrder[i] = c

\* a < b for two strings, as the default sort compares them
RECURSIVE StrLess(_, _)
StrLess(a, b) ==
    IF Len(b) = 0 THEN FALSE
    ELSE IF Len(a) = 0 THEN TRUE
    ELSE IF a[1] = b[1] THEN StrLess(Tail(a), Tail(b))
    ELSE Rank(a[1]) < Rank(b[1])

RECURSIVE insertSorted(_, _)
insertSorted(x, arr) ==
    IF Len(arr) = 0 THEN <<x>>
    ELSE IF StrLess(x, arr[1]) THEN <<x>> \o arr
    ELSE <<arr[1]>> \o insertSorted(x, Tail(arr))

\* Mutant: the fragments are left in the order of the formula.
unsorted(arr) == arr

\* result.sort()
RECURSIVE sort(_)
sort(arr) ==
    IF Len(arr) = 0 THEN <<>> ELSE insertSorted(arr[1], sort(Tail(arr)))

\* How JSON.stringify writes one lexeme inside a string literal.
Escape(c) ==
    CASE c = QUOTE -> "\\\""
      [] c = NL -> "\\n\\n"
      [] c = TXO -> "\\\\text{"
      [] c = SIN -> "\\\\sin"
      [] c = SENOPEN -> "\\\\operatorname{sen"
      [] OTHER -> c

Unescape(c) ==
    CASE c = "\\\"" -> QUOTE
      [] c = "\\n\\n" -> NL
      [] c = "\\\\text{" -> TXO
      [] c = "\\\\sin" -> SIN
      [] c = "\\\\operatorname{sen" -> SENOPEN
      [] OTHER -> c

JSONString(s) == <<QUOTE>> \o [i \in 1..Len(s) |-> Escape(s[i])] \o <<QUOTE>>

\* ["a","b"] : one array of strings
RECURSIVE JSONStrings(_)
JSONStrings(arr) ==
    IF Len(arr) = 0 THEN <<>>
    ELSE IF Len(arr) = 1 THEN JSONString(arr[1])
    ELSE JSONString(arr[1]) \o <<COMMA>> \o JSONStrings(Tail(arr))

JSONStringArray(arr) == <<"[">> \o JSONStrings(arr) \o <<"]">>

RECURSIVE JSONArrays(_)
JSONArrays(texts) ==
    IF Len(texts) = 0 THEN <<>>
    ELSE IF Len(texts) = 1 THEN JSONStringArray(texts[1])
    ELSE JSONStringArray(texts[1]) \o <<COMMA>> \o JSONArrays(Tail(texts))

\* JSON.stringify({ str, texts })
JSONstringify(str, texts) ==
    <<"{", QUOTE, "str", QUOTE, ":">> \o JSONString(str)
        \o <<COMMA, QUOTE, "texts", QUOTE, ":", "[">>
        \o JSONArrays(texts) \o <<"]", "}">>

\* JSON.parse(normalStr).str : the string literal that follows {"str":
JSONparseStr(normalStr) ==
    LET j == IndexFrom(normalStr, 7, QUOTE)
    IN  [i \in 1..(j - 7) |-> Unescape(normalStr[i + 6])]

\* The `texts` of stringToGroupKey: per formula, its sorted \text{} contents.
sortedTexts(maths) == [k \in 1..Len(maths) |-> sort(textsOf(maths[k]))]

keyTexts(str) == sortedTexts(match(str, MATH_REGEX))

\* The `str` of stringToGroupKey.
trimAll(lines) == [k \in 1..Len(lines) |-> trim(lines[k])]

keyStr(str) ==
    join(trimAll(split(
             replace(replace(replace(replace(str, MATH_REGEX, <<"__MATH__">>),
                                     GRAPHIE_REGEX, <<"__GRAPHIE__">>),
                             WIDGET_REGEX, <<"__WIDGET__">>),
                     MATH_WS_WIDGET_REGEX, <<"__MATH__", " ", "__WIDGET__">>))),
         LINE_BREAK)

stringToGroupKey(str) == JSONstringify(keyStr(str), keyTexts(str))

\* Mutant: the 'pt' rewrite done for every language.
translateMathAnyLang(math, lang) == replace(math, SIN, <<SENOPEN, CLOSE>>)

\* translateMath(math, lang): "\sin" becomes "\operatorname{sen}" for 'pt'.
\* The closing brace of the replacement is the lexeme "}" TEXT_REGEX stops at.
translateMath(math, lang) ==
    IF lang = "pt" THEN replace(math, SIN, <<SENOPEN, CLOSE>>) ELSE math

(***************************************************************************)
(* A JavaScript object used as a map is a sequence of <<key, value>> pairs *)
(* in insertion order.  Object.keys and Object.entries list the keys that  *)
(* are array indices (here: the strings made of digits) first, in numeric  *)
(* order, and the other keys in insertion order.                           *)
(***************************************************************************)
objHas(obj, k) == \E i \in 1..Len(obj) : obj[i][1] = k

objGet(obj, k) == obj[CHOOSE i \in 1..Len(obj) : obj[i][1] = k][2]

\* obj[k] = v
objSet(obj, k, v) ==
    IF objHas(obj, k)
    THEN [i \in 1..Len(obj) |-> IF obj[i][1] = k THEN <<k, v>> ELSE obj[i]]
    ELSE Append(obj, <<k, v>>)

IsIndexKey(k) == Len(k) > 0 /\ \A i \in 1..Len(k) : k[i] \in Digits

NumLess(a, b) == Len(a) < Len(b) \/ (Len(a) = Len(b) /\ StrLess(a, b))

IsIndexEntry(e) == IsIndexKey(e[1])

IsNamedEntry(e) == ~IsIndexKey(e[1])

RECURSIVE insertIndexEntry(_, _)
insertIndexEntry(e, arr) ==
    IF Len(arr) = 0 THEN <<e>>
    ELSE IF NumLess(e[1], arr[1][1]) THEN <<e>> \o arr
    ELSE <<arr[1]>> \o insertIndexEntry(e, Tail(arr))

RECURSIVE sortIndexEntries(_)
sortIndexEntries(arr) ==
    IF Len(arr) = 0 THEN <<>>
    ELSE insertIndexEntry(arr[1], sortIndexEntries(Tail(arr)))

\* Object.entries(obj)
ObjectEntries(obj) ==
    sortIndexEntries(SelectSeq(obj, IsIndexEntry)) \o SelectSeq(obj, IsNamedEntry)

\* Object.keys(obj)
keysOf(entries) == [i \in 1..Len(entries) |-> entries[i][1]]

ObjectKeys(obj) == keysOf(ObjectEntries(obj))

\* Does pat occur in s at index i ?
OccursAt(s, pat, i) ==
    /\ i + Len(pat) - 1 <= Len(s)
    /\ \A k \in 1..Len(pat) : s[i + k - 1] = pat[k]

\* result.replace(new RegExp(`\\\\text{${englishText}}`, 'g'), replacement):
\* every occurrence of the literal pat, left to right, becomes repl.
RECURSIVE replaceLiteral(_, _, _, _)
replaceLiteral(s, pat, repl, i) ==
    IF i > Len(s) THEN <<>>
    ELSE IF OccursAt(s, pat, i)
         THEN repl \o replaceLiteral(s, pat, repl, i + Len(pat))
         ELSE <<s[i]>> \o replaceLiteral(s, pat, repl, i + 1)

\* the for .. of Object.entries(dict) loop of getMapping and populateTemplate
RECURSIVE applyEntries(_, _)
applyEntries(result, entries) ==
    IF Len(entries) = 0 THEN result
    ELSE applyEntries(
             replaceLiteral(result, <<TXO>> \o entries[1][1] \o <<CLOSE>>,
                            <<TXO>> \o entries[1][2] \o <<CLOSE>>, 1),
             Tail(entries))

applyDictionary(math, dict) == applyEntries(math, ObjectEntries(dict))

\* The inputs.map of getMapping: what an English formula is compared as.
mapperRewrite(input, lang, mathDictionary) == applyDictionary(input, mathDictionary)

\* The maths.map of populateTemplate: what an English formula is substituted as.
populatorRewrite(math, lang, dict) == applyDictionary(translateMath(math, lang), dict)

\* `inputs` of getMapping for MATH_REGEX, after its inputs.map
mapperRewriteAll(inputs, lang, mathDictionary) ==
    [k \in 1..Len(inputs) |-> mapperRewrite(inputs[k], lang, mathDictionary)]

mapperInputsOf(englishStr, lang, mathDictionary) ==
    mapperRewriteAll(match(englishStr, MATH_REGEX), lang, mathDictionary)

\* `maths` of populateTemplate, after its maths.map
populatorRewriteAll(maths, lang, dict) ==
    [k \in 1..Len(maths) |-> populatorRewrite(maths[k], lang, dict)]

populatorMathsOf(template, englishStr, lang) ==
    populatorRewriteAll(match(englishStr, MATH_REGEX), lang, template.mathDictionary)

\* Mutant: the last match instead of the first.
lastIndexOf(inputs, output) ==
    IF \A j \in 1..Len(inputs) : inputs[j] # output THEN -1
    ELSE (CHOOSE j \in 1..Len(inputs) :
              /\ inputs[j] = output
              /\ \A k \in 1..Len(inputs) : inputs[k] = output => k <= j) - 1

\* inputs.indexOf(output), 0-based, -1 when absent
indexOf(inputs, output) ==
    LET J == {j \in 1..Len(inputs) : inputs[j] = output}
    IN  IF J = {} THEN -1 ELSE Min(J) - 1

mismatchError(findRegex) ==
    CASE findRegex = MATH_REGEX -> "math doesn't match"
      [] findRegex = GRAPHIE_REGEX -> "graphies don't match"
      [] findRegex = WIDGET_REGEX -> "widgets don't match"
      [] OTHER -> "the only acceptable values for getFunc are getMaths, getGraphies, and getWdigets"

translateMathAll(outputs, lang) ==
    [k \in 1..Len(outputs) |-> translateMath(outputs[k], lang)]

\* The outputs.forEach of getMapping: mapping[outputIndex] = inputIndex, or the
\* throw at the first output that no input equals.
mappingOf(inputs, outputs, findRegex) ==
    IF \E k \in 1..Len(outputs) : indexOf(inputs, outputs[k]) = -1
    THEN [ok |-> FALSE, mapping |-> <<>>, error |-> mismatchError(findRegex)]
    ELSE [ok |-> TRUE,
          mapping |-> [k \in 1..Len(outputs) |-> indexOf(inputs, outputs[k])],
          error |-> ""]

\* getMapping: [ok |-> TRUE, mapping] or, when it throws, [ok |-> FALSE, error]
getMapping(englishStr, translatedStr, lang, findRegex, mathDictionary) ==
    IF findRegex = MATH_REGEX
    THEN mappingOf(mapperInputsOf(englishStr, lang, mathDictionary),
                   translateMathAll(match(translatedStr, findRegex), lang),
                   findRegex)
    ELSE mappingOf(match(englishStr, findRegex), match(translatedStr, findRegex),
                   findRegex)

\* inputMap[normalized].push(input), the array made first when missing
pushTo(map, normalized, input) ==
    objSet(map, normalized,
           Append(IF objHas(map, normalized) THEN objGet(map, normalized) ELSE <<>>,
                  input))

\* The forEach loops of getMathDictionary that fill inputMap and outputMap:
\* formulas grouped under their form with every \text{..} made __TEXT__.
RECURSIVE groupByNormalized(_, _)
groupByNormalized(maths, map) ==
    IF Len(maths) = 0 THEN map
    ELSE groupByNormalized(
             Tail(maths),
             pushTo(map, replace(maths[1], TEXT_REGEX, <<"__TEXT__">>), maths[1]))

\* allMatches(input, ..): regex.exec turns the array of formulas into the
\* string of its elements joined by ","; inputTexts[matches[1]] = true.
RECURSIVE textSet(_, _)
textSet(fragments, obj) ==
    IF Len(fragments) = 0 THEN obj
    ELSE textSet(Tail(fragments), objSet(obj, fragments[1], TRUE))

distinctTexts(formulas) ==
    ObjectKeys(textSet(textsOf(join(formulas, <<COMMA>>)), <<>>))

\* for (let i = 0; i < inputKeys.length; i++) dict[inputKeys[i]] = outputKeys[i]
RECURSIVE pairUp(_, _, _, _)
pairUp(inputKeys, outputKeys, i, dict) ==
    IF i > Len(inputKeys) THEN dict
    ELSE pairUp(inputKeys, outputKeys, i + 1,
                objSet(dict, inputKeys[i],
                       IF i <= Len(outputKeys) THEN outputKeys[i] ELSE <<UNDEFINED>>))

\* /__TEXT__/.test(key)
HasTextPlaceholder(key) == \E i \in 1..Len(key) : key[i] = "__TEXT__"

\* Object.keys(inputMap).forEach(key => ..)
RECURSIVE dictionaryOfKeys(_, _, _, _)
dictionaryOfKeys(keys, inputMap, outputMap, dict) ==
    IF Len(keys) = 0 THEN dict
    ELSE IF HasTextPlaceholder(keys[1]) /\ objHas(outputMap, keys[1])
         THEN dictionaryOfKeys(Tail(keys), inputMap, outputMap,
                  pairUp(distinctTexts(objGet(inputMap, keys[1])),
                         distinctTexts(objGet(outputMap, keys[1])), 1, dict))
         ELSE dictionaryOfKeys(Tail(keys), inputMap, outputMap, dict)

dictionaryOf(inputMap, outputMap) ==
    dictionaryOfKeys(ObjectKeys(inputMap), inputMap, outputMap, <<>>)

getMathDictionary(englishStr, translatedStr) ==
    dictionaryOf(groupByNormalized(match(englishStr, MATH_REGEX), <<>>),
                 groupByNormalized(match(translatedStr, MATH_REGEX), <<>>))

\* line.replace(MATH_REGEX, ..).replace(GRAPHIE_REGEX, ..).replace(WIDGET_REGEX, ..)
toPlaceholders(line) ==
    replace(replace(replace(line, MATH_REGEX, <<"__MATH__">>),
                    GRAPHIE_REGEX, <<"__GRAPHIE__">>),
            WIDGET_REGEX, <<"__WIDGET__">>)

\* A group's template: a template object, an Error or null, told apart by tag.
NoTemplate ==
    [tag |-> "null", lines |-> <<>>, mathMapping |-> <<>>, graphieMapping |-> <<>>,
     widgetMapping |-> <<>>, mathDictionary |-> <<>>, message |-> ""]

ErrorValue(msg) == [NoTemplate EXCEPT !.tag = "Error", !.message = msg]

allToPlaceholders(lines) == [k \in 1..Len(lines) |-> toPlaceholders(lines[k])]

\* The object literal of createTemplate: its properties are evaluated in
\* order, so the first getMapping that throws decides the Error returned.
templateOf(translatedLines, mathDictionary, m, g, w) ==
    IF ~m.ok THEN ErrorValue(m.error)
    ELSE IF ~g.ok THEN ErrorValue(g.error)
    ELSE IF ~w.ok THEN ErrorValue(w.error)
    ELSE [tag |-> "template",
          lines |-> allToPlaceholders(translatedLines),
          mathMapping |-> m.mapping,
          graphieMapping |-> g.mapping,
          widgetMapping |-> w.mapping,
          mathDictionary |-> mathDictionary,
          message |-> ""]

createTemplateWith(englishStr, translatedStr, lang, mathDictionary) ==
    templateOf(split(translatedStr), mathDictionary,
               getMapping(englishStr, translatedStr, lang, MATH_REGEX, mathDictionary),
               getMapping(englishStr, translatedStr, lang, GRAPHIE_REGEX, <<>>),
               getMapping(englishStr, translatedStr, lang, WIDGET_REGEX, <<>>))

createTemplate(englishStr, translatedStr, lang) ==
    createTemplateWith(englishStr, translatedStr, lang,
                       getMathDictionary(englishStr, translatedStr))

\* values[mapping[cursor]] of the replace callbacks; a missing entry reads as
\* undefined, which replace writes as "undefined".
pick(values, mapping, cursor) ==
    IF cursor + 1 <= Len(mapping) /\ mapping[cursor + 1] + 1 <= Len(values)
    THEN values[mapping[cursor + 1] + 1]
    ELSE <<UNDEFINED>>

\* templateLine.replace(/placeholder/g, () => values[mapping[cursor++]])
RECURSIVE fill(_, _, _, _, _, _)
fill(line, placeholder, values, mapping, cursor, i) ==
    IF i > Len(line) THEN <<>>
    ELSE IF line[i] = placeholder
         THEN pick(values, mapping, cursor)
                  \o fill(line, placeholder, values, mapping, cursor + 1, i + 1)
         ELSE <<line[i]>> \o fill(line, placeholder, values, mapping, cursor, i + 1)

count(line, placeholder) == Cardinality({i \in 1..Len(line) : line[i] = placeholder})

\* templateLine.replace(/__MATH__/g, ..)
mathFilled(templateLine, template, maths, mi) ==
    fill(templateLine, "__MATH__", maths, template.mathMapping, mi, 1)

\* .. .replace(/__GRAPHIE__/g, ..)
graphieFilled(templateLine, template, maths, graphies, mi, gi) ==
    fill(mathFilled(templateLine, template, maths, mi),
         "__GRAPHIE__", graphies, template.graphieMapping, gi, 1)

\* .. .replace(/__WIDGET__/g, ..)
widgetFilled(templateLine, template, maths, graphies, widgets, mi, gi, wi) ==
    fill(graphieFilled(templateLine, template, maths, graphies, mi, gi),
         "__WIDGET__", widgets, template.widgetMapping, wi, 1)

prepend(line, rest) ==
    IF rest.ok THEN [ok |-> TRUE, lines |-> <<line>> \o rest.lines] ELSE rest

\* The englishLines.map of populateTemplate from line `index` (0-based) on,
\* with the three running cursors.  template.lines[index] is undefined past
\* the template's last line, and undefined.replace throws a TypeError.
RECURSIVE populateLines(_, _, _, _, _, _, _, _, _)
populateLines(template, nLines, maths, graphies, widgets, index, mi, gi, wi) ==
    IF index >= nLines THEN [ok |-> TRUE, lines |-> <<>>]
    ELSE IF index + 1 > Len(template.lines) THEN [ok |-> FALSE, lines |-> <<>>]
    ELSE prepend(
             widgetFilled(template.lines[index + 1], template, maths, graphies,
                          widgets, mi, gi, wi),
             populateLines(template, nLines, maths, graphies, widgets, index + 1,
                 mi + count(template.lines[index + 1], "__MATH__"),
                 gi + count(mathFilled(template.lines[index + 1], template, maths, mi),
                            "__GRAPHIE__"),
                 wi + count(graphieFilled(template.lines[index + 1], template, maths,
                                          graphies, mi, gi),
                            "__WIDGET__")))

joined(r) ==
    IF r.ok THEN [ok |-> TRUE, value |-> join(r.lines, LINE_BREAK)]
    ELSE [ok |-> FALSE, value |-> <<"TypeError">>]

\* populateTemplate: [ok |-> TRUE, value] or, when it throws, [ok |-> FALSE, ..]
populateTemplate(template, englishStr, lang) ==
    joined(populateLines(template, Len(split(englishStr)),
                         populatorMathsOf(template, englishStr, lang),
                         match(englishStr, GRAPHIE_REGEX),
                         match(englishStr, WIDGET_REGEX), 0, 0, 0, 0))

\* ------------------------------------------------------------------------
\* TranslationAssistant
\* ------------------------------------------------------------------------

\* The accessors the caller hands to the constructor.
getEnglishStr(item) == item.englishStr

getTranslation(item) == item.translation

\* The first loop of getSuggestionGroups: items bucketed by group key.
RECURSIVE bucketItems(_, _)
bucketItems(items, groups) ==
    IF Len(items) = 0 THEN groups
    ELSE bucketItems(Tail(items),
                     pushTo(groups, stringToGroupKey(getEnglishStr(items[1])), items[1]))

\* Is translatedStr truthy ?
HasTranslation(item) == Len(getTranslation(item)) > 0

createTemplateOfItem(item, this_lang_now) ==
    createTemplate(getEnglishStr(item), getTranslation(item), this_lang_now)

\* Mutant: the scan goes on after a failure, to the first translated item
\* whose template can be built.
templateOfFirstUsable(items, this_lang_now) ==
    IF \A j \in 1..Len(items) : ~HasTranslation(items[j]) THEN NoTemplate
    ELSE IF \E j \in 1..Len(items) :
                /\ HasTranslation(items[j])
                /\ createTemplateOfItem(items[j], this_lang_now).tag = "template"
    THEN createTemplateOfItem(
             items[Min({j \in 1..Len(items) :
                           /\ HasTranslation(items[j])
                           /\ createTemplateOfItem(items[j], this_lang_now).tag
                                  = "template"})],
             this_lang_now)
    ELSE createTemplateOfItem(
             items[Min({j \in 1..Len(items) : HasTranslation(items[j])})],
             this_lang_now)

\* The for .. of loop over one bucket: the template of the first item that
\* has a translation, null when no item has one.
templateOfBucket(items, this_lang_now) ==
    IF \A j \in 1..Len(items) : ~HasTranslation(items[j]) THEN NoTemplate
    ELSE createTemplateOfItem(
             items[Min({j \in 1..Len(items) : HasTranslation(items[j])})],
             this_lang_now)

\* The second loop of getSuggestionGroups
templatize(buckets, this_lang_now) ==
    [i \in 1..Len(buckets) |->
        <<buckets[i][1],
          [items |-> buckets[i][2],
           template |-> templateOfBucket(buckets[i][2], this_lang_now)]>>]

\* getSuggestionGroups(items), with the value this.lang has when it runs
getSuggestionGroups(items, this_lang_now) ==
    templatize(bucketItems(items, <<>>), this_lang_now)

NoSuggestion == [null |-> TRUE, str |-> <<>>]

Suggestion(str) == [null |-> FALSE, str |-> str]

BarePlaceholders == {<<"__MATH__">>, <<"__GRAPHIE__">>, <<"__WIDGET__">>}

\* englishStr.indexOf('\\text') === -1
HasTextMarker(englishStr) == \E i \in 1..Len(englishStr) : englishStr[i] = TXO

returned(r) ==
    IF r.ok THEN [threw |-> FALSE, suggestion |-> Suggestion(r.value)]
    ELSE [threw |-> TRUE, suggestion |-> NoSuggestion]

\* Mutant: a failed template is not told from a missing group; the item's
\* English string is handed back.
fromTemplateErrorUnchecked(template, item, lang) ==
    IF template.tag = "template"
    THEN returned(populateTemplate(template, getEnglishStr(item), lang))
    ELSE IF template.tag = "Error"
    THEN [threw |-> FALSE, suggestion |-> Suggestion(getEnglishStr(item))]
    ELSE [threw |-> FALSE, suggestion |-> NoSuggestion]

\* suggest, lines 426-438: what the group's template gives
fromTemplate(template, item, lang) ==
    IF template.tag = "Error" THEN [threw |-> FALSE, suggestion |-> NoSuggestion]
    ELSE IF template.tag = "template"
    THEN returned(populateTemplate(template, getEnglishStr(item), lang))
    ELSE [threw |-> FALSE, suggestion |-> NoSuggestion]

\* suggest, lines 425-442: the group lookup
fromGroups(item, normalStr, suggestionGroups, lang) ==
    IF objHas(suggestionGroups, normalStr)
    THEN fromTemplate(objGet(suggestionGroups, normalStr).template, item, lang)
    ELSE [threw |-> FALSE, suggestion |-> NoSuggestion]

\* suggest, lines 413-442
suggestFor(item, englishStr, normalStr, normalObjStr, suggestionGroups, lang) ==
    IF normalObjStr = <<"__MATH__">> /\ ~HasTextMarker(englishStr)
    THEN [threw |-> FALSE, suggestion |-> Suggestion(translateMath(englishStr, lang))]
    ELSE IF normalObjStr \in BarePlaceholders /\ normalObjStr # <<"__MATH__">>
    THEN [threw |-> FALSE, suggestion |-> Suggestion(englishStr)]
    ELSE fromGroups(item, normalStr, suggestionGroups, lang)

suggestKeyed(item, normalStr, suggestionGroups, lang) ==
    suggestFor(item, getEnglishStr(item), normalStr, JSONparseStr(normalStr),
               suggestionGroups, lang)

\* The callback of itemsToTranslate.map in suggest:
\* [threw, suggestion] for one item.
suggestItem(item, suggestionGroups, lang) ==
    suggestKeyed(item, stringToGroupKey(getEnglishStr(item)), suggestionGroups, lang)

collect(itemsToTranslate, rs) ==
    IF \E i \in 1..Len(rs) : rs[i].threw
    THEN [threw |-> TRUE, pairs |-> <<>>]
    ELSE [threw |-> FALSE,
          pairs |-> [i \in 1..Len(rs) |->
                        [item |-> itemsToTranslate[i],
                         suggestion |-> rs[i].suggestion]]]

\* suggest(itemsToTranslate): the pairs, or threw when the callback throws
suggest(itemsToTranslate, suggestionGroups, lang) ==
    collect(itemsToTranslate,
            [i \in 1..Len(itemsToTranslate) |->
                suggestItem(itemsToTranslate[i], suggestionGroups, lang)])

usesLangFor(englishStr, normalStr, normalObjStr, suggestionGroups) ==
    \/ normalObjStr = <<"__MATH__">> /\ ~HasTextMarker(englishStr)
    \/ /\ ~(normalObjStr \in BarePlaceholders /\ normalObjStr # <<"__MATH__">>)
       /\ objHas(suggestionGroups, normalStr)
       /\ objGet(suggestionGroups, normalStr).template.tag = "template"

usesLangKeyed(englishStr, normalStr, suggestionGroups) ==
    usesLangFor(englishStr, normalStr, JSONparseStr(normalStr), suggestionGroups)

\* Does suggest hand lang to translateMath or populateTemplate for this item ?
UsesLang(item, suggestionGroups) ==
    usesLangKeyed(getEnglishStr(item), stringToGroupKey(getEnglishStr(item)),
                  suggestionGroups)

\* ------------------------------------------------------------------------
\* The engine: new TranslationAssistant(allItems, .., lang), then suggest calls
\* ------------------------------------------------------------------------
MaxCorpus == 2
MaxQuery == 2

Langs == {"pt", "es"}

Math(content) == <<"$">> \o content \o <<"$">>

Text(fragment) == <<TXO>> \o fragment \o <<CLOSE>>

\* (English, translation) pairs a corpus is made of; <<>> is "no translation".
CorpusPairs ==
    { <<<<"Simplify", " ">> \o Math(<<"2">>), <<"x", " ">> \o Math(<<"2">>)>>,
      <<<<"Simplify", " ">> \o Math(<<"3">>), <<"x", " ">> \o Math(<<"2">>)>>,
      <<<<"Simplify", " ">> \o Math(<<"3">>), <<>>>>,
      <<<<"Simplify", " ">> \o Math(<<"2">>) \o <<NL>> \o Math(<<"3">>),
        <<"x", " ">> \o Math(<<"3">>) \o Math(<<"2">>)>>,
      <<<<"G1">>, <<"G2">>>>,
      <<Math(Text(<<"r">>)), Math(Text(<<"z">>))>>,
      <<<<"x", " ">> \o Math(<<SIN>>), <<"y", " ">> \o Math(<<SIN>>)>> }

\* English strings of the items handed to suggest.
QueryStrs ==
    { <<"Simplify", " ">> \o Math(<<"3">>),
      <<"Simplify", " ">> \o Math(<<"3">>) \o <<NL>> \o Math(<<"2">>),
      <<"G1">>,
      <<"W1">>,
      <<" ">> \o Math(<<SIN>>),
      Math(Text(<<"r">>)) }

SeqsUpTo(S, n) == UNION {[1..k -> S] : k \in 0..n}

Corpora ==
    {[i \in 1..Len(c) |-> [id |-> i, englishStr |-> c[i][1], translation |-> c[i][2]]] :
        c \in SeqsUpTo(CorpusPairs, MaxCorpus)}

Queries ==
    {[i \in 1..Len(q) |-> [id |-> 0, englishStr |-> q[i], translation |-> <<>>]] :
        q \in SeqsUpTo(QueryStrs, MaxQuery)}

NoCall ==
    /\ argEnglishStr = <<>>
    /\ argTranslatedStr = <<>>
    /\ dictResult = <<>>
    /\ mappingResult = [findRegex |-> "", result |-> [ok |-> TRUE, mapping |-> <<>>, error |-> ""]]
    /\ mapperInputs = <<>>
    /\ templateResult = NoTemplate
    /\ populated = [ok |-> TRUE, value |-> <<>>]
    /\ populatorMaths = <<>>
    /\ groupKey = <<>>

NoEngine ==
    /\ allItems = <<>>
    /\ this_lang = UNDEFINED
    /\ this_suggestionGroups = <<>>
    /\ builderLangs = {}
    /\ suggestArg = <<>>
    /\ suggestions = [threw |-> FALSE, pairs |-> <<>>]
    /\ populatorLangs = {}

Init ==
    /\ pc = "new"
    /\ allItems \in Corpora
    /\ langArg \in Langs
    /\ this_lang = UNDEFINED
    /\ this_suggestionGroups = <<>>
    /\ builderLangs = {}
    /\ suggestArg = <<>>
    /\ suggestions = [threw |-> FALSE, pairs |-> <<>>]
    /\ populatorLangs = {}
    /\ NoCall

\* constructor(allItems, getEnglishStr, getTranslation, lang): the groups are
\* built by getSuggestionGroups, which reads this.lang, before this.lang is set.
Construct ==
    /\ pc = "new"
    /\ this_suggestionGroups' = getSuggestionGroups(allItems, this_lang)
    /\ builderLangs' =
           IF \E i \in 1..Len(allItems) : HasTranslation(allItems[i])
           THEN {this_lang} ELSE {}
    /\ this_lang' = langArg
    /\ pc' = "ready"
    /\ UNCHANGED <<allItems, langArg, suggestArg, suggestions, populatorLangs>>
    /\ UNCHANGED callVars

\* suggest(itemsToTranslate).  suggest writes no field of the engine, so a
\* second call starts from the state the first one started from.
Suggest(items) ==
    /\ pc = "ready"
    /\ suggestArg' = items
    /\ suggestions' = suggest(items, this_suggestionGroups, this_lang)
    /\ populatorLangs' =
           IF \E i \in 1..Len(items) : UsesLang(items[i], this_suggestionGroups)
           THEN {this_lang} ELSE {}
    /\ pc' = "suggested"
    /\ UNCHANGED <<allItems, langArg, this_lang, this_suggestionGroups, builderLangs>>
    /\ UNCHANGED callVars

Next == Construct \/ \E items \in Queries : Suggest(items)

Spec == Init /\ [][Next]_vars

\* ------------------------------------------------------------------------
\* Direct calls of the functions of the file on strings made of a few pieces
\* ------------------------------------------------------------------------
MaxPieces == 2

\* The strings made of at most n pieces of P
RECURSIVE Concats(_, _)
Concats(P, n) ==
    IF n = 0 THEN {<<>>}
    ELSE LET shorter == Concats(P, n - 1)
         IN  shorter \cup {s \o piece : s \in shorter, piece \in P}

MapperPieces ==
    { Math(<<"2">>), Math(<<SIN>>), Math(Text(<<"r">>)), Math(Text(<<"z">>)),
      <<"G1">>, <<"W1">> }

TemplatePieces ==
    { <<"x">>, <<NL>>, Math(<<"2">>), Math(<<SIN>>), Math(Text(<<"r">>)),
      Math(Text(<<"z">>)) }

KeyPieces ==
    { <<"Simplify", " ">>, <<" ">>, <<NL>>, Math(<<"2">>), Math(<<"3">>),
      Math(Text(<<"r">>) \o Text(<<"b">>)), Math(Text(<<"b">>) \o Text(<<"r">>)) }

InitCall(strs, langs) ==
    /\ pc = "args"
    /\ argEnglishStr \in strs \ {<<>>}
    /\ argTranslatedStr \in strs \ {<<>>}
    /\ langArg \in langs
    /\ dictResult = <<>>
    /\ mappingResult = [findRegex |-> "", result |-> [ok |-> TRUE, mapping |-> <<>>, error |-> ""]]
    /\ mapperInputs = <<>>
    /\ templateResult = NoTemplate
    /\ populated = [ok |-> TRUE, value |-> <<>>]
    /\ populatorMaths = <<>>
    /\ groupKey = <<>>
    /\ NoEngine

\* getMathDictionary(englishStr, translatedStr)
CallGetMathDictionary ==
    /\ pc = "args"
    /\ dictResult' = getMathDictionary(argEnglishStr, argTranslatedStr)
    /\ pc' = "dictionary"
    /\ UNCHANGED <<argEnglishStr, argTranslatedStr, langArg, mappingResult,
                   mapperInputs, templateResult, populated, populatorMaths, groupKey>>
    /\ UNCHANGED engineVars

\* getMapping(englishStr, translatedStr, lang, findRegex, mathDictionary), with
\* the arguments createTemplate gives it
CallGetMapping(findRegex) ==
    /\ pc = "args"
    /\ LET d == IF findRegex = MATH_REGEX
                THEN getMathDictionary(argEnglishStr, argTranslatedStr) ELSE <<>>
       IN  /\ dictResult' = d
           /\ mappingResult' =
                  [findRegex |-> findRegex,
                   result |-> getMapping(argEnglishStr, argTranslatedStr, langArg,
                                         findRegex, d)]
    /\ pc' = "mapping"
    /\ UNCHANGED <<argEnglishStr, argTranslatedStr, langArg,
                   mapperInputs, templateResult, populated, populatorMaths, groupKey>>
    /\ UNCHANGED engineVars

NextMapper ==
    \/ CallGetMathDictionary
    \/ \E findRegex \in {MATH_REGEX, GRAPHIE_REGEX, WIDGET_REGEX} : CallGetMapping(findRegex)

SpecMapper == InitCall(Concats(MapperPieces, MaxPieces), Langs) /\ [][NextMapper]_vars

\* createTemplate(englishStr, translatedStr, lang)
CallCreateTemplate ==
    /\ pc = "args"
    /\ templateResult' = createTemplate(argEnglishStr, argTranslatedStr, langArg)
    /\ dictResult' = getMathDictionary(argEnglishStr, argTranslatedStr)
    /\ mapperInputs' = mapperInputsOf(argEnglishStr, langArg,
                           getMathDictionary(argEnglishStr, argTranslatedStr))
    /\ pc' = "template"
    /\ UNCHANGED <<argEnglishStr, argTranslatedStr, langArg, mappingResult,
                   populated, populatorMaths, groupKey>>
    /\ UNCHANGED engineVars

\* populateTemplate(template, englishStr, lang) on the result of createTemplate
CallPopulateTemplate ==
    /\ pc = "template"
    /\ templateResult.tag = "template"
    /\ populated' = populateTemplate(templateResult, argEnglishStr, langArg)
    /\ populatorMaths' = populatorMathsOf(templateResult, argEnglishStr, langArg)
    /\ pc' = "populated"
    /\ UNCHANGED <<argEnglishStr, argTranslatedStr, langArg, dictResult, mappingResult,
                   mapperInputs, templateResult, groupKey>>
    /\ UNCHANGED engineVars

NextTemplate == CallCreateTemplate \/ CallPopulateTemplate

SpecTemplate == InitCall(Concats(TemplatePieces, MaxPieces), Langs) /\ [][NextTemplate]_vars

\* stringToGroupKey(str) on two strings
CallStringToGroupKey ==
    /\ pc = "args"
    /\ groupKey' = <<stringToGroupKey(argEnglishStr), stringToGroupKey(argTranslatedStr)>>
    /\ pc' = "keys"
    /\ UNCHANGED <<argEnglishStr, argTranslatedStr, langArg, dictResult, mappingResult,
                   mapperInputs, templateResult, populated, populatorMaths>>
    /\ UNCHANGED engineVars

NextKey == CallStringToGroupKey

SpecKey == InitCall(Concats(KeyPieces, MaxPieces), {"es"}) /\ [][NextKey]_vars

\* ------------------------------------------------------------------------
\* Properties of the engine (Spec)
\* ------------------------------------------------------------------------
Returned == pc = "suggested" /\ ~suggestions.threw

KeyOfItem(item) == stringToGroupKey(getEnglishStr(item))

GroupOf(item) == objGet(this_suggestionGroups, KeyOfItem(item))

HasGroup(item) == objHas(this_suggestionGroups, KeyOfItem(item))

Translated(items) == SelectSeq(items, HasTranslation)

\* The item a group's template is built from
Representative(group) == Translated(group.items)[1]

HasRepresentative(group) == Len(Translated(group.items)) > 0

Occurrences(str, findRegex) ==
    {match(str, findRegex)[k] : k \in 1..Len(match(str, findRegex))}

\* C1: suggest completes and returns one pair per input item, the i-th pair
\* holding the i-th item and a suggestion string or null, also when the
\* group's template has another number of lines than the queried string.
C1_SuggestReturnsAPairPerItem ==
    pc = "suggested" =>
        /\ ~suggestions.threw
        /\ Len(suggestions.pairs) = Len(suggestArg)
        /\ \A i \in 1..Len(suggestArg) : suggestions.pairs[i].item = suggestArg[i]

\* The translated string has an occurrence that equals no English occurrence.
UnmatchedAsWritten(item, findRegex) ==
    \E o \in Occurrences(getTranslation(item), findRegex) :
        o \notin Occurrences(getEnglishStr(item), findRegex)

\* The same, an English formula being read with its \text{} fragments
\* replaced through the fragment dictionary of the pair.
UnmatchedMath(item) ==
    \E o \in Occurrences(getTranslation(item), MATH_REGEX) :
        \A m \in Occurrences(getEnglishStr(item), MATH_REGEX) :
            o # applyDictionary(m, getMathDictionary(getEnglishStr(item),
                                                     getTranslation(item)))

\* The item is answered by the bare-placeholder rule of suggest.
BareRule(item) ==
    \/ keyStr(getEnglishStr(item)) \in {<<"__GRAPHIE__">>, <<"__WIDGET__">>}
    \/ /\ keyStr(getEnglishStr(item)) = <<"__MATH__">>
       /\ ~HasTextMarker(getEnglishStr(item))

\* C3 as stated: a representative whose translation has a math, graphie or
\* widget occurrence with no equal English counterpart makes the template the
\* failure marker and every item of that key, bare placeholders too, gets null.
C3_MismatchGivesNullAsStated ==
    Returned =>
        \A i \in 1..Len(suggestArg) :
            ( /\ HasGroup(suggestArg[i])
              /\ HasRepresentative(GroupOf(suggestArg[i]))
              /\ \E findRegex \in {MATH_REGEX, GRAPHIE_REGEX, WIDGET_REGEX} :
                     UnmatchedAsWritten(Representative(GroupOf(suggestArg[i])), findRegex) )
            => /\ GroupOf(suggestArg[i]).template.tag = "Error"
               /\ suggestions.pairs[i].suggestion.null

\* C3 amended: a representative whose translation has a graphie or widget
\* occurrence equal to no English one, or a formula equal to no English formula
\* read through the fragment dictionary, makes the template the failure marker,
\* and suggest returns nothing but null for an item of that key, except for
\* the items the bare-placeholder rule answers.
C3_MismatchGivesNull ==
    pc = "suggested" =>
        \A i \in 1..Len(suggestArg) :
            ( /\ HasGroup(suggestArg[i])
              /\ HasRepresentative(GroupOf(suggestArg[i]))
              /\ \/ UnmatchedMath(Representative(GroupOf(suggestArg[i])))
                 \/ UnmatchedAsWritten(Representative(GroupOf(suggestArg[i])), GRAPHIE_REGEX)
                 \/ UnmatchedAsWritten(Representative(GroupOf(suggestArg[i])), WIDGET_REGEX) )
            => /\ GroupOf(suggestArg[i]).template.tag = "Error"
               /\ (~suggestions.threw /\ ~BareRule(suggestArg[i]))
                      => suggestions.pairs[i].suggestion.null

\* A mismatching representative, and a null answer for an item of its group
\* that is no bare placeholder.
C3_Witness ==
    /\ Returned
    /\ \E i \in 1..Len(suggestArg) :
           /\ HasGroup(suggestArg[i])
           /\ HasRepresentative(GroupOf(suggestArg[i]))
           /\ UnmatchedMath(Representative(GroupOf(suggestArg[i])))
           /\ ~BareRule(suggestArg[i])
           /\ suggestions.pairs[i].suggestion.null

\* "\sin" made "\operatorname{sen}" all through a string
RECURSIVE SinToSen(_)
SinToSen(str) ==
    IF Len(str) = 0 THEN <<>>
    ELSE (IF str[1] = SIN THEN <<SENOPEN, CLOSE>> ELSE <<str[1]>>) \o SinToSen(Tail(str))

\* What the group lookup of suggest answers for an item
LookedUp(item) ==
    IF HasGroup(item) /\ GroupOf(item).template.tag = "template"
    THEN Suggestion(populateTemplate(GroupOf(item).template, getEnglishStr(item),
                                     langArg).value)
    ELSE NoSuggestion

\* C4: a bare graphie or widget is suggested unchanged; a bare formula with no
\* \text marker is suggested with every \sin made \operatorname{sen} for 'pt'
\* and unchanged for another language; a bare formula with a \text marker gets
\* what the group lookup gives.  The corpus plays no part in the first two.
C4_BarePlaceholders ==
    Returned =>
        \A i \in 1..Len(suggestArg) :
            /\ keyStr(getEnglishStr(suggestArg[i])) \in {<<"__GRAPHIE__">>, <<"__WIDGET__">>}
                   => suggestions.pairs[i].suggestion
                          = Suggestion(getEnglishStr(suggestArg[i]))
            /\ ( /\ keyStr(getEnglishStr(suggestArg[i])) = <<"__MATH__">>
                 /\ ~HasTextMarker(getEnglishStr(suggestArg[i])) )
                   => suggestions.pairs[i].suggestion
                          = Suggestion(IF langArg = "pt"
                                       THEN SinToSen(getEnglishStr(suggestArg[i]))
                                       ELSE getEnglishStr(suggestArg[i]))
            /\ ( /\ keyStr(getEnglishStr(suggestArg[i])) = <<"__MATH__">>
                 /\ HasTextMarker(getEnglishStr(suggestArg[i])) )
                   => suggestions.pairs[i].suggestion = LookedUp(suggestArg[i])

\* A bare formula with \sin suggested for 'pt' beside a bare graphie whose
\* group has a failed template.
C4_Witness ==
    /\ Returned
    /\ langArg = "pt"
    /\ \E i \in 1..Len(suggestArg) :
           /\ keyStr(getEnglishStr(suggestArg[i])) = <<"__MATH__">>
           /\ \E k \in 1..Len(suggestions.pairs[i].suggestion.str) :
                  suggestions.pairs[i].suggestion.str[k] = SENOPEN
    /\ \E i \in 1..Len(suggestArg) :
           /\ keyStr(getEnglishStr(suggestArg[i])) = <<"__GRAPHIE__">>
           /\ HasGroup(suggestArg[i])
           /\ GroupOf(suggestArg[i]).template.tag = "Error"
           /\ ~suggestions.pairs[i].suggestion.null

\* C7: the templates of an engine constructed with language code L are built
\* with L, the code suggest hands to populateTemplate and translateMath.
C7_OneLanguageCode ==
    pc \in {"ready", "suggested"} =>
        /\ \A l \in builderLangs : l = langArg
        /\ \A l \in populatorLangs : l = langArg
        /\ \A g \in 1..Len(this_suggestionGroups) :
               HasRepresentative(this_suggestionGroups[g][2]) =>
                   this_suggestionGroups[g][2].template =
                       createTemplateOfItem(
                           Representative(this_suggestionGroups[g][2]), langArg)

Ids(items) == [j \in 1..Len(items) |-> items[j].id]

\* C8: after construction every corpus item is in exactly one group, that of
\* its key, in corpus order; a group's template is createTemplate of its first
\* item with a non-empty translation, failure or not, and null exactly when
\* the group has no such item.
C8_Groups ==
    pc = "ready" =>
        /\ \A i \in 1..Len(allItems) :
               /\ Cardinality({g \in 1..Len(this_suggestionGroups) :
                      \E j \in 1..Len(this_suggestionGroups[g][2].items) :
                          this_suggestionGroups[g][2].items[j].id = i}) = 1
               /\ HasGroup(allItems[i])
               /\ \E j \in 1..Len(GroupOf(allItems[i]).items) :
                      GroupOf(allItems[i]).items[j] = allItems[i]
        /\ \A g \in 1..Len(this_suggestionGroups) :
               /\ \A h \in 1..Len(this_suggestionGroups) :
                      this_suggestionGroups[g][1] = this_suggestionGroups[h][1] => g = h
               /\ \A j, k \in 1..Len(this_suggestionGroups[g][2].items) :
                      j < k => Ids(this_suggestionGroups[g][2].items)[j]
                                   < Ids(this_suggestionGroups[g][2].items)[k]
               /\ (this_suggestionGroups[g][2].template.tag = "null")
                      <=> ~HasRepresentative(this_suggestionGroups[g][2])
               /\ HasRepresentative(this_suggestionGroups[g][2]) =>
                      \E l \in Langs \cup {UNDEFINED} :
                          this_suggestionGroups[g][2].template =
                              createTemplate(
                                  getEnglishStr(Representative(this_suggestionGroups[g][2])),
                                  getTranslation(Representative(this_suggestionGroups[g][2])),
                                  l)

\* A group of two translated items whose first gives a failure and whose
\* second would have given a template.
C8_Witness ==
    /\ pc = "ready"
    /\ \E g \in 1..Len(this_suggestionGroups) :
           /\ Len(Translated(this_suggestionGroups[g][2].items)) = 2
           /\ this_suggestionGroups[g][2].template.tag = "Error"
           /\ createTemplateOfItem(Translated(this_suggestionGroups[g][2].items)[2],
                                   UNDEFINED).tag = "template"

\* ------------------------------------------------------------------------
\* Properties of createTemplate and populateTemplate (SpecTemplate)
\* ------------------------------------------------------------------------
HasNoText(str) == \A i \in 1..Len(str) : str[i] # TXO

\* str with each of its formulas put through the math rewriter of lang
RECURSIVE MathsRewritten(_, _, _)
MathsRewritten(str, l, i) ==
    IF i > Len(str) THEN <<>>
    ELSE IF MatchEnd(MATH_REGEX, str, i) = 0
         THEN <<str[i]>> \o MathsRewritten(str, l, i + 1)
         ELSE (IF l = "pt"
               THEN SinToSen(SubSeq(str, i, MatchEnd(MATH_REGEX, str, i)))
               ELSE SubSeq(str, i, MatchEnd(MATH_REGEX, str, i)))
              \o MathsRewritten(str, l, MatchEnd(MATH_REGEX, str, i) + 1)

\* C2: round trip.  With no \text{} in E and T, populating the template of
\* (E, T) with E gives T with its formulas rewritten for lang, every paragraph
\* of T included, whatever the paragraph counts of E and T.
C2_RoundTrip ==
    ( /\ pc = "populated"
      /\ HasNoText(argEnglishStr)
      /\ HasNoText(argTranslatedStr) )
    => /\ populated.ok
       /\ populated.value = MathsRewritten(argTranslatedStr, langArg, 1)

\* The two-step transform of an English formula: the fragment dictionary
\* first, the math rewriter of lang second.
TwoStep(m, l, dict) ==
    IF l = "pt" THEN SinToSen(applyDictionary(m, dict)) ELSE applyDictionary(m, dict)

TwoStepAll(str, l, dict) ==
    [k \in 1..Len(match(str, MATH_REGEX)) |->
        TwoStep(match(str, MATH_REGEX)[k], l, dict)]

\* C9: getMapping compares, and populateTemplate substitutes, an English
\* formula after the same two steps: dictionary, then math rewriter.
C9_SameTwoStepTransform ==
    /\ pc \in {"template", "populated"} =>
           mapperInputs = TwoStepAll(argEnglishStr, langArg, dictResult)
    /\ pc = "populated" =>
           /\ populatorMaths = TwoStepAll(argEnglishStr, langArg, dictResult)
           /\ populatorMaths = mapperInputs

\* ------------------------------------------------------------------------
\* Properties of getMapping and getMathDictionary (SpecMapper)
\* ------------------------------------------------------------------------
MappedRegex == mappingResult.findRegex

EnglishOccurrences == match(argEnglishStr, MappedRegex)

TranslatedOccurrences == match(argTranslatedStr, MappedRegex)

EnglishCompared ==
    IF MappedRegex = MATH_REGEX
    THEN [j \in 1..Len(EnglishOccurrences) |->
             applyDictionary(EnglishOccurrences[j], dictResult)]
    ELSE EnglishOccurrences

TranslatedCompared ==
    IF MappedRegex = MATH_REGEX
    THEN [i \in 1..Len(TranslatedOccurrences) |->
             IF langArg = "pt" THEN SinToSen(TranslatedOccurrences[i])
             ELSE TranslatedOccurrences[i]]
    ELSE TranslatedOccurrences

Normalized(math) == replace(math, TEXT_REGEX, <<"__TEXT__">>)

\* The distinct fragments of the formulas of str under a normalized key, in
\* order of first appearance
RECURSIVE Distinct(_)
Distinct(fragments) ==
    IF Len(fragments) = 0 THEN <<>>
    ELSE LET before == Distinct(SubSeq(fragments, 1, Len(fragments) - 1))
             last == fragments[Len(fragments)]
         IN  IF \E i \in 1..Len(before) : before[i] = last THEN before
             ELSE Append(before, last)

RECURSIVE FragmentsUnder(_, _)
FragmentsUnder(maths, key) ==
    IF Len(maths) = 0 THEN <<>>
    ELSE (IF Normalized(maths[1]) = key THEN textsOf(maths[1]) ELSE <<>>)
             \o FragmentsUnder(Tail(maths), key)

DistinctUnder(str, key) == Distinct(FragmentsUnder(match(str, MATH_REGEX), key))

NormalizedKeys(str) ==
    {Normalized(match(str, MATH_REGEX)[k]) : k \in 1..Len(match(str, MATH_REGEX))}

SharedKeys ==
    {key \in NormalizedKeys(argEnglishStr) \cap NormalizedKeys(argTranslatedStr) :
        HasTextPlaceholder(key)}

\* C10: under every normalized key with a fragment placeholder that E and T
\* share, the i-th distinct English fragment is mapped to the i-th distinct
\* translated fragment; every entry maps an English fragment to a fragment
\* of T; the keys of E that T lacks add no entry.
C10_DictionaryPairsByPosition ==
    pc = "dictionary" =>
        /\ \A key \in SharedKeys :
               \A i \in 1..Len(DistinctUnder(argEnglishStr, key)) :
                   /\ objHas(dictResult, DistinctUnder(argEnglishStr, key)[i])
                   /\ i <= Len(DistinctUnder(argTranslatedStr, key))
                   /\ objGet(dictResult, DistinctUnder(argEnglishStr, key)[i])
                          = DistinctUnder(argTranslatedStr, key)[i]
        /\ \A e \in 1..Len(dictResult) :
               /\ \E key \in SharedKeys :
                      \E i \in 1..Len(DistinctUnder(argEnglishStr, key)) :
                          DistinctUnder(argEnglishStr, key)[i] = dictResult[e][1]
               /\ \E key \in NormalizedKeys(argTranslatedStr) :
                      \E i \in 1..Len(DistinctUnder(argTranslatedStr, key)) :
                          DistinctUnder(argTranslatedStr, key)[i] = dictResult[e][2]

\* ------------------------------------------------------------------------
\* Properties of stringToGroupKey (SpecKey)
\* ------------------------------------------------------------------------
BagOf(fragments) ==
    [f \in {fragments[i] : i \in 1..Len(fragments)} |->
        Cardinality({i \in 1..Len(fragments) : fragments[i] = f})]

\* Per formula of str, its \text{} fragments as a bag: what a sorted list of
\* them stands for
FragmentBags(str) ==
    [k \in 1..Len(match(str, MATH_REGEX)) |->
        BagOf(textsOf(match(str, MATH_REGEX)[k]))]

====
